---------------------------- MODULE Spec2Model ----------------------------
(***************************************************************************)
(* Model of the retrieval engine of Personal-LLM-MVP (engine.py, app.py):   *)
(* corpus loading, the lazy embedding index, weighted retrieval, context    *)
(* assembly and the two-stage analysis pipeline.                            *)
(*                                                                          *)
(* Numbers are fixed point: a unit vector has components in units of        *)
(* 1/UnitScale, a weight and a pack bias are in tenths, so a similarity is  *)
(* in units of 1/UnitScale^2 and every score of one run is in the same      *)
(* unit.  float32 rounding is not modelled.                                 *)
(***************************************************************************)
EXTENDS Integers, Sequences, FiniteSets, TLC

\* ------------------------------------------------------------------ bounds
MaxLines == 3
MaxCards == 2
MaxCalls == 3
MaxRankCalls == 2
MaxDocs == 2
MaxSubmits == 2
MaxAnaCards == 1

\* ------------------------------------------------------- program constants
\* weight default 1.2, in tenths
DefaultWeight == 12
\* retrieve's default top_k
DefaultTopK == 12
\* the epsilon-guarded L2 normalisation yields unit vectors: |v| = UnitScale
UnitScale == 5
\* a pack absent from the bias mapping has multiplier 1.0, in tenths
BiasOne == 10

\* ---------------------------------------------------------------- helpers
Min(a, b) == IF a < b THEN a ELSE b

Range(s) == {s[i] : i \in 1..Len(s)}

SeqsUpTo(S, n) == UNION {[1..k -> S] : k \in 0..n}

Perms(n) == {p \in [1..n -> 1..n] : \A i, j \in 1..n : i # j => p[i] # p[j]}

\* ------------------------------------------------- corpus file and records
\* A JSON value of a record's "id" field, with the text str() renders it as.
JStr(s) == [s |-> s, t |-> "str"]
JNum(s) == [s |-> s, t |-> "num"]
JNull == [s |-> "None", t |-> "null"]
JAbsent == [s |-> "", t |-> "absent"]

WNum(n) == [n |-> n, t |-> "num"]
WAbsent == [n |-> 0, t |-> "absent"]

\* One physical line of the corpus file.  raw: "blank" (empty), "ws"
\* (whitespace only), "bad" (malformed JSON), "nonobj" (JSON, not an object),
\* "obj" (a JSON object with the fields below).
Obj(id, pack, w, title) ==
    [id |-> id, pack |-> pack, title |-> title, raw |-> "obj", weight |-> w]

NonCard(raw) ==
    [id |-> JAbsent, pack |-> "", title |-> "", raw |-> raw, weight |-> WAbsent]

\* line.strip() is empty
StripIsEmpty(line) == line.raw \in {"blank", "ws"}

\* json.loads(line) on one stripped line: the decode error's lineno counts
\* lines of the string it was given, which holds exactly one line.
json_loads(line) ==
    IF line.raw = "bad"
    THEN [ok |-> FALSE, exc |-> [type |-> "JSONDecodeError", lineno |-> 1]]
    ELSE IF line.raw = "nonobj"
    THEN [ok |-> FALSE, exc |-> [type |-> "AttributeError", lineno |-> 0]]
    ELSE [ok |-> TRUE, exc |-> [type |-> "none", lineno |-> 0]]

\* str(card.get(key, "")) for a field holding JSON value v
py_str_get(v) == IF v.t = "absent" THEN "" ELSE v.s

\* float(card.get("weight", 1.2)), in tenths
py_weight(w) == IF w.t = "absent" THEN DefaultWeight ELSE w.n

\* header + body: the text is determined by title and pack
card_text(card) == <<card.title, card.pack>>

Snippet(card) ==
    [id |-> py_str_get(card.id), pack |-> card.pack,
     title |-> card.title, weight |-> py_weight(card.weight),
     text |-> card_text(card)]

RECURSIVE LoadFrom(_, _, _)
LoadFrom(f, i, acc) ==
    IF i > Len(f) THEN [ok |-> TRUE, exc |-> [type |-> "none", lineno |-> 0], out |-> acc,
                        at |-> 0]
    ELSE IF StripIsEmpty(f[i]) THEN LoadFrom(f, i + 1, acc)
    ELSE IF ~json_loads(f[i]).ok
         THEN [ok |-> FALSE, exc |-> json_loads(f[i]).exc, out |-> acc, at |-> i]
    ELSE LoadFrom(f, i + 1, Append(acc, Snippet(f[i])))

\* Retriever._load_cards as a function of the file's lines
load_cards(f) == LoadFrom(f, 1, <<>>)

\* ------------------------------------------------------------ input spaces
LoadLines ==
    { NonCard("blank"), NonCard("ws"), NonCard("bad"), NonCard("nonobj"),
      Obj(JStr("a"), "p", WAbsent, "t1"),
      Obj(JStr("a"), "q", WNum(20), "t2"),
      Obj(JStr("7"), "p", WNum(10), "t2"),
      Obj(JNum("7"), "q", WAbsent, "t1"),
      Obj(JAbsent, "p", WAbsent, "t1") }

CardLines ==
    { Obj(JStr("a"), "p", WAbsent, "t1"),
      Obj(JStr("b"), "p", WNum(20), "t1"),
      Obj(JStr("c"), "q", WNum(10), "t2") }

NonBlankCount(f) == Cardinality({i \in 1..Len(f) : ~StripIsEmpty(f[i])})

\* ------------------------------------------------------ embedding service
Threads == {"s1", "s2"}

Queries == {"qa", "qb"}

TopKs == {1, DefaultTopK}

\* A pack-bias mapping is a set of <<pack, multiplier in tenths>> pairs.
NoBias == {}

Biases == {NoBias, {<<"p", 12>>, <<"q", 11>>}}

\* The service's raw (unnormalised) vector for a text, by the text's key:
\* one fixed vector per input text.
RawVec(key) ==
    CASE key = "t1" -> <<3, 4>>
      [] key = "t2" -> <<8, -6>>
      [] key = "qa" -> <<10, 0>>
      [] key = "qb" -> <<-4, 3>>
      [] OTHER -> <<0, 0>>

\* client.embeddings.create(input=texts): one vector per input, in input order
service_embed(texts) == [i \in 1..Len(texts) |-> RawVec(texts[i][1])]

Dot(u, v) == u[1] * v[1] + u[2] * v[2]

ISqrt(n) == CHOOSE r \in 0..n : r * r <= n /\ n < (r + 1) * (r + 1)

\* np.linalg.norm(arr, axis=1, keepdims=True) for one row
Norm(v) == ISqrt(Dot(v, v))

\* arr / (norms + 1e-10): a zero row stays zero, any other row becomes a unit row
normalize(arr) ==
    [i \in 1..Len(arr) |->
        IF Norm(arr[i]) = 0 THEN <<0, 0>>
        ELSE <<(arr[i][1] * UnitScale) \div Norm(arr[i]),
               (arr[i][2] * UnitScale) \div Norm(arr[i])>>]

\* Retriever._embed
embed(texts) == normalize(service_embed(texts))

\* [s.text for s in self.snippets]
snippet_texts(S) == [i \in 1..Len(S) |-> S[i].text]

\* the matrix ensure_index stores
build_index(S) == [built |-> TRUE, rows |-> embed(snippet_texts(S))]

NoIndex == [built |-> FALSE, rows |-> <<>>]

\* ------------------------------------------------------------- retrieval
\* sims = (self.embeddings @ q).flatten()
sims(E, q) == [i \in 1..Len(E) |-> Dot(E[i], q)]

\* weights = np.array([s.weight for s in self.snippets])
weights(S) == [i \in 1..Len(S) |-> S[i].weight]

\* scores = sims * weights
scores(E, q, S) == [i \in 1..Len(S) |-> sims(E, q)[i] * weights(S)[i]]

\* the bias mapping never consulted
pack_bias_ignored(bias, pack) == BiasOne

\* pack_bias.get(card.pack, 1.0)
pack_bias(bias, pack) ==
    IF \E e \in bias : e[1] = pack
    THEN (CHOOSE e \in bias : e[1] = pack)[2]
    ELSE BiasOne

\* score = similarity * weight * pack_bias(card.pack)
biased_scores(sc, S, bias) ==
    [i \in 1..Len(sc) |-> sc[i] * pack_bias(bias, S[i].pack)]

negated(sc) == [i \in 1..Len(sc) |-> 0 - sc[i]]

\* np.argsort(keys) with the default kind: an ascending order of the keys; the
\* sort is not stable, so equal keys come out in an order the build decides.
argsort_outcomes(keys) ==
    {p \in Perms(Len(keys)) :
        \A i, j \in 1..Len(keys) : i < j => keys[p[i]] <= keys[p[j]]}

\* the slice taken one element too long
slice_top_k_plus_one(idx, top_k) == SubSeq(idx, 1, Min(top_k + 1, Len(idx)))

\* idx[:top_k] for top_k >= 0
slice_top_k(idx, top_k) == SubSeq(idx, 1, Min(top_k, Len(idx)))

\* [(self.snippets[i], float(scores[i])) for i in idx]
hits_of(idx, sc) == [j \in 1..Len(idx) |-> [card |-> idx[j], score |-> sc[idx[j]]]]

\* ------------------------------------------------------- context assembly
\* An external document as the caller passes it: a dict with "text" and,
\* optionally, "id".
DocSet ==
    { [id |-> "", text |-> "x1", hasId |-> FALSE],
      [id |-> "", text |-> "x2", hasId |-> FALSE],
      [id |-> "a", text |-> "x1", hasId |-> TRUE],
      [id |-> "e", text |-> "x2", hasId |-> TRUE] }

TextCode(text) == IF text = "x1" THEN 1 ELSE IF text = "x2" THEN 2 ELSE 3

\* hash(text): a function of the process's hash seed and the text, of either sign
py_hash(seed, text) ==
    IF (TextCode(text) + seed) % 2 = 0
    THEN TextCode(text) * 8 + seed
    ELSE 0 - (TextCode(text) * 8 + seed)

Abs(n) == IF n < 0 THEN 0 - n ELSE n

\* A source_id as rendered into the block: the literal text, followed for a
\* derived id by the decimal hash.
\* s.id of a card
card_source_id(s) == [lit |-> s.id, num |-> 0]

\* sid = d.get("id", f"extra:{abs(hash(d.get('text','')))}")
doc_source_id(d, seed) ==
    IF d.hasId THEN [lit |-> d.id, num |-> 0]
    ELSE [lit |-> "extra:", num |-> Abs(py_hash(seed, d.text))]

\* the block of one hit (s, _score)
hit_block(S, h) ==
    [pack |-> S[h.card].pack, title |-> S[h.card].title,
     weight |-> S[h.card].weight, source_id |-> card_source_id(S[h.card]), from |-> "hit"]

\* the block of one external document
doc_block(d, seed) ==
    [pack |-> "external", title |-> "",
     weight |-> 10, source_id |-> doc_source_id(d, seed), from |-> "doc"]

\* build_context's blocks, as a function of its arguments
build_context(S, hs, docs, seed) ==
    [j \in 1..Len(hs) |-> hit_block(S, hs[j])]
        \o [j \in 1..Len(docs) |-> doc_block(docs[j], seed)]

\* ------------------------------------------------------ analysis pipeline
Modes == {"Personal", "Integral"}

\* MODES[mode]["top_k"]
mode_top_k(mode) == IF mode = "Personal" THEN 10 ELSE 16

\* MODES[mode]["pack_bias"], pack "p" standing for the first biased pack
mode_pack_bias(mode) == IF mode = "Personal" THEN {<<"p", 12>>} ELSE NoBias

FormQueries == {"qa", ""}

Pasted == {"", "x1"}

Completions == {"o1", "o2"}

Critiques == {"c1"}

\* pasted_text wrapped as one external document
pasted_docs(pasted) ==
    IF pasted = "" THEN <<>> ELSE <<[id |-> "", text |-> pasted, hasId |-> FALSE]>>

PipelineOrder == <<"retrieve", "assemble", "opinion", "critique">>

IsPrefix(s, t) == Len(s) <= Len(t) /\ \A i \in 1..Len(s) : s[i] = t[i]

VARIABLES
    \* corpus loading (Retriever.__init__, app.py's retriever preparation)
    file, lpc, lineNo, out, loadError, retriever, snippets,
    \* the shared Retriever's lazy index and the sessions calling it
    embeddings, pc, call, qvec, outcome, callAfterBuilt, callQueryReqs,
    corpusRequests, buildsDone, calls, returned, argsortMemo,
    \* build_context: its arguments, its loop position and its blocks
    ctxHits, extra_docs, cpc, cpos, blocks, hashSeed,
    \* the Analyze form, the pipeline run and the session history
    apc, alog, astatus, areq, ahits, acontext, opinion, critique, critiqueInput,
    history, uiError, submits

loadVars == <<file, lpc, lineNo, out, loadError, retriever, snippets>>

retrVars == <<embeddings, pc, call, qvec, outcome, callAfterBuilt, callQueryReqs,
              corpusRequests, buildsDone, calls, returned, argsortMemo>>

ctxVars == <<ctxHits, extra_docs, cpc, cpos, blocks, hashSeed>>

anaVars == <<apc, alog, astatus, areq, ahits, acontext, opinion, critique,
             critiqueInput, history, uiError, submits>>

vars == <<loadVars, retrVars, ctxVars, anaVars>>

NoError == [type |-> "none", lineno |-> 0]

\* ------------------------------------------------------ loading, by steps
\* get_retriever(canon_path) -> Retriever.__init__ -> _load_cards opens the file
OpenFile ==
    /\ lpc = "start"
    /\ lpc' = "reading"
    /\ lineNo' = 0
    /\ out' = <<>>
    /\ UNCHANGED <<file, loadError, retriever, snippets>>
    /\ UNCHANGED <<retrVars, ctxVars, anaVars>>

\* for line in f: a blank line is skipped
SkipBlankLine ==
    /\ lpc = "reading"
    /\ lineNo < Len(file)
    /\ StripIsEmpty(file[lineNo + 1])
    /\ lineNo' = lineNo + 1
    /\ UNCHANGED <<file, lpc, out, loadError, retriever, snippets>>
    /\ UNCHANGED <<retrVars, ctxVars, anaVars>>

\* json.loads / card.get raises: the exception leaves __init__ and
\* get_retriever (nothing is cached), app.py shows str(e), retriever stays None
RaiseOnLine ==
    /\ lpc = "reading"
    /\ lineNo < Len(file)
    /\ ~StripIsEmpty(file[lineNo + 1])
    /\ ~json_loads(file[lineNo + 1]).ok
    /\ lineNo' = lineNo + 1
    /\ lpc' = "failed"
    /\ loadError' = json_loads(file[lineNo + 1]).exc
    /\ UNCHANGED <<file, out, retriever, snippets>>
    /\ UNCHANGED <<retrVars, ctxVars, anaVars>>

\* out.append(Snippet(...))
AppendCard ==
    /\ lpc = "reading"
    /\ lineNo < Len(file)
    /\ ~StripIsEmpty(file[lineNo + 1])
    /\ json_loads(file[lineNo + 1]).ok
    /\ lineNo' = lineNo + 1
    /\ out' = Append(out, Snippet(file[lineNo + 1]))
    /\ UNCHANGED <<file, lpc, loadError, retriever, snippets>>
    /\ UNCHANGED <<retrVars, ctxVars, anaVars>>

\* return out; self.snippets = ...; the Retriever is cached and handed to app.py
ReturnCards ==
    /\ lpc = "reading"
    /\ lineNo = Len(file)
    /\ lpc' = "done"
    /\ snippets' = out
    /\ retriever' = "ready"
    /\ UNCHANGED <<file, lineNo, out, loadError>>
    /\ UNCHANGED <<retrVars, ctxVars, anaVars>>

\* a script rerun after a failed load calls get_retriever again
RerunAfterFailure ==
    /\ lpc = "failed"
    /\ lpc' = "start"
    /\ loadError' = NoError
    /\ UNCHANGED <<file, lineNo, out, retriever, snippets>>
    /\ UNCHANGED <<retrVars, ctxVars, anaVars>>

\* ------------------------------------------- the Retriever, call by call
\* where a call goes once the index is known to be built
AfterEnsure(t) == IF call[t].op = "retrieve" THEN "embedq" ELSE "idle"

IdleCall == [bias |-> NoBias, top_k |-> DefaultTopK, op |-> "none", query |-> "qa"]

RetrIdle ==
    /\ embeddings = NoIndex
    /\ pc = [t \in Threads |-> "idle"]
    /\ call = [t \in Threads |-> IdleCall]
    /\ qvec = [t \in Threads |-> <<0, 0>>]
    /\ outcome = [t \in Threads |-> "none"]
    /\ callAfterBuilt = [t \in Threads |-> FALSE]
    /\ callQueryReqs = [t \in Threads |-> 0]
    /\ corpusRequests = 0
    /\ buildsDone = 0
    /\ calls = 0
    /\ returned = {}
    /\ argsortMemo = {}

StartCall(t, c, limit) ==
    /\ pc[t] = "idle"
    /\ calls < limit
    /\ calls' = calls + 1
    /\ call' = [call EXCEPT ![t] = c]
    /\ pc' = [pc EXCEPT ![t] = "ensure"]
    /\ outcome' = [outcome EXCEPT ![t] = "none"]
    /\ callAfterBuilt' = [callAfterBuilt EXCEPT ![t] = embeddings.built]
    /\ callQueryReqs' = [callQueryReqs EXCEPT ![t] = 0]
    /\ UNCHANGED <<embeddings, qvec, corpusRequests, buildsDone, returned, argsortMemo>>
    /\ UNCHANGED <<loadVars, ctxVars, anaVars>>

\* a session calls retriever.ensure_index()
CallEnsureIndex(t) ==
    StartCall(t, [IdleCall EXCEPT !.op = "ensure_index"], MaxCalls)

\* a session calls retriever.retrieve(query) with the default top_k
CallRetrieveDefault(t) ==
    StartCall(t, [IdleCall EXCEPT !.op = "retrieve"], MaxCalls)

\* a session calls retriever.retrieve(query, top_k), scored under a pack bias
CallRetrieve(t) ==
    \E q \in Queries, k \in TopKs, b \in Biases :
        StartCall(t, [bias |-> b, top_k |-> k, op |-> "retrieve", query |-> q],
                  MaxRankCalls)

\* ensure_index without its None test: every call rebuilds
EnsureCheck_rebuilds(t) ==
    /\ pc[t] = "ensure"
    /\ pc' = [pc EXCEPT ![t] = "building"]
    /\ corpusRequests' = corpusRequests + 1
    /\ UNCHANGED <<embeddings, call, qvec, outcome, callAfterBuilt, callQueryReqs,
                   buildsDone, calls, returned, argsortMemo>>
    /\ UNCHANGED <<loadVars, ctxVars, anaVars>>

\* ensure_index: if self.embeddings is None: start the corpus embedding request
EnsureCheck(t) ==
    /\ pc[t] = "ensure"
    /\ IF embeddings.built
       THEN /\ pc' = [pc EXCEPT ![t] = AfterEnsure(t)]
            /\ outcome' = [outcome EXCEPT ![t] =
                              IF call[t].op = "retrieve" THEN "none" ELSE "ok"]
            /\ callQueryReqs' = [callQueryReqs EXCEPT ![t] =
                              IF call[t].op = "retrieve" THEN 1 ELSE 0]
            /\ UNCHANGED corpusRequests
       ELSE /\ pc' = [pc EXCEPT ![t] = "building"]
            /\ corpusRequests' = corpusRequests + 1
            /\ UNCHANGED <<outcome, callQueryReqs>>
    /\ UNCHANGED <<embeddings, call, qvec, callAfterBuilt, buildsDone, calls, returned,
                   argsortMemo>>
    /\ UNCHANGED <<loadVars, ctxVars, anaVars>>

\* the corpus embedding request answers: self.embeddings = normalised matrix.
\* An empty input list never yields a matrix (norm over axis 1 of an empty array).
BuildOk(t) ==
    /\ pc[t] = "building"
    /\ Len(snippets) >= 1
    /\ embeddings' = build_index(snippets)
    /\ buildsDone' = buildsDone + 1
    /\ pc' = [pc EXCEPT ![t] = AfterEnsure(t)]
    /\ outcome' = [outcome EXCEPT ![t] =
                      IF call[t].op = "retrieve" THEN "none" ELSE "ok"]
    /\ callQueryReqs' = [callQueryReqs EXCEPT ![t] =
                      IF call[t].op = "retrieve" THEN 1 ELSE 0]
    /\ UNCHANGED <<call, qvec, callAfterBuilt, corpusRequests, calls, returned,
                   argsortMemo>>
    /\ UNCHANGED <<loadVars, ctxVars, anaVars>>

\* a build that stores the rows received so far before it raises
BuildFail_partial(t) ==
    /\ pc[t] = "building"
    /\ pc' = [pc EXCEPT ![t] = "idle"]
    /\ outcome' = [outcome EXCEPT ![t] = "error"]
    /\ embeddings' = [built |-> TRUE,
                      rows |-> SubSeq(build_index(snippets).rows, 1, Len(snippets) - 1)]
    /\ UNCHANGED <<call, qvec, callAfterBuilt, callQueryReqs,
                   corpusRequests, buildsDone, calls, returned, argsortMemo>>
    /\ UNCHANGED <<loadVars, ctxVars, anaVars>>

\* the corpus embedding request raises: the assignment never happens and the
\* exception leaves ensure_index and retrieve
BuildFail(t) ==
    /\ pc[t] = "building"
    /\ pc' = [pc EXCEPT ![t] = "idle"]
    /\ outcome' = [outcome EXCEPT ![t] = "error"]
    /\ UNCHANGED <<embeddings, call, qvec, callAfterBuilt, callQueryReqs,
                   corpusRequests, buildsDone, calls, returned, argsortMemo>>
    /\ UNCHANGED <<loadVars, ctxVars, anaVars>>

\* q = self._embed([query])[0]
QueryEmbedOk(t) ==
    /\ pc[t] = "embedq"
    /\ qvec' = [qvec EXCEPT ![t] = embed(<<<<call[t].query>>>>)[1]]
    /\ pc' = [pc EXCEPT ![t] = "score"]
    /\ UNCHANGED <<embeddings, call, outcome, callAfterBuilt, callQueryReqs,
                   corpusRequests, buildsDone, calls, returned, argsortMemo>>
    /\ UNCHANGED <<loadVars, ctxVars, anaVars>>

\* the query embedding request raises
QueryEmbedFail(t) ==
    /\ pc[t] = "embedq"
    /\ pc' = [pc EXCEPT ![t] = "idle"]
    /\ outcome' = [outcome EXCEPT ![t] = "error"]
    /\ UNCHANGED <<embeddings, call, qvec, callAfterBuilt, callQueryReqs,
                   corpusRequests, buildsDone, calls, returned, argsortMemo>>
    /\ UNCHANGED <<loadVars, ctxVars, anaVars>>

\* the order argsort gave this key array before, if any: the sort is a
\* deterministic function of its input
memo_of(keys) == {m \in argsortMemo : m.keys = keys}

\* sims, weights, scores, argsort, slice, and the returned hits
ScoreAndReturn(t) ==
    /\ pc[t] = "score"
    /\ LET sc == biased_scores(scores(embeddings.rows, qvec[t], snippets),
                               snippets, call[t].bias)
           keys == negated(sc)
       IN \E p \in argsort_outcomes(keys) :
            /\ \A m \in memo_of(keys) : m.idx = p
            /\ argsortMemo' = argsortMemo \cup {[keys |-> keys, idx |-> p]}
            /\ returned' = returned \cup
                 {[bias |-> call[t].bias, top_k |-> call[t].top_k,
                   query |-> call[t].query,
                   hits |-> hits_of(slice_top_k(p, call[t].top_k), sc)]}
    /\ pc' = [pc EXCEPT ![t] = "idle"]
    /\ outcome' = [outcome EXCEPT ![t] = "ok"]
    /\ qvec' = [qvec EXCEPT ![t] = <<0, 0>>]
    /\ UNCHANGED <<embeddings, call, callAfterBuilt, callQueryReqs, corpusRequests,
                   buildsDone, calls>>
    /\ UNCHANGED <<loadVars, ctxVars, anaVars>>

\* ----------------------------------------------- build_context, by steps
CtxIdle ==
    /\ ctxHits = <<>>
    /\ extra_docs = <<>>
    /\ cpc = "idle"
    /\ cpos = 0
    /\ blocks = <<>>

\* for s, _score in snippets: blocks.append(...)
AppendHitBlock ==
    /\ cpc = "hits"
    /\ cpos < Len(ctxHits)
    /\ blocks' = Append(blocks, hit_block(snippets, ctxHits[cpos + 1]))
    /\ cpos' = cpos + 1
    /\ UNCHANGED <<ctxHits, extra_docs, cpc, hashSeed>>
    /\ UNCHANGED <<loadVars, retrVars, anaVars>>

\* if extra_docs: an empty or missing list adds nothing
HitsDone ==
    /\ cpc = "hits"
    /\ cpos = Len(ctxHits)
    /\ cpc' = IF Len(extra_docs) > 0 THEN "docs" ELSE "done"
    /\ cpos' = 0
    /\ UNCHANGED <<ctxHits, extra_docs, blocks, hashSeed>>
    /\ UNCHANGED <<loadVars, retrVars, anaVars>>

\* for d in extra_docs: sid = ...; blocks.append(...)
AppendDocBlock ==
    /\ cpc = "docs"
    /\ cpos < Len(extra_docs)
    /\ blocks' = Append(blocks, doc_block(extra_docs[cpos + 1], hashSeed))
    /\ cpos' = cpos + 1
    /\ UNCHANGED <<ctxHits, extra_docs, cpc, hashSeed>>
    /\ UNCHANGED <<loadVars, retrVars, anaVars>>

DocsDone ==
    /\ cpc = "docs"
    /\ cpos = Len(extra_docs)
    /\ cpc' = "done"
    /\ UNCHANGED <<ctxHits, extra_docs, cpos, blocks, hashSeed>>
    /\ UNCHANGED <<loadVars, retrVars, anaVars>>

\* ------------------------------------- the Analyze form and the pipeline
NoCritiqueInput == [opinion |-> "", query |-> "", context |-> <<>>]

NoRequest == [mode |-> "Integral", pasted |-> "", query |-> ""]

AnaIdle ==
    /\ apc = "form"
    /\ alog = <<>>
    /\ astatus = "none"
    /\ areq = NoRequest
    /\ ahits = <<>>
    /\ acontext = <<>>
    /\ opinion = ""
    /\ critique = ""
    /\ critiqueInput = NoCritiqueInput
    /\ history = <<>>
    /\ uiError = ""
    /\ submits = 0

\* if submitted: if retriever is None: st.error(...)
SubmitNoRetriever ==
    /\ apc = "form"
    /\ submits < MaxSubmits
    /\ retriever = "none"
    /\ submits' = submits + 1
    /\ uiError' = "Canon not loaded"
    /\ UNCHANGED <<apc, alog, astatus, areq, ahits, acontext, opinion, critique,
                   critiqueInput, history>>
    /\ UNCHANGED <<loadVars, retrVars, ctxVars>>

\* elif not (query and query.strip()): st.error(...)
SubmitBlankQuery ==
    /\ apc = "form"
    /\ submits < MaxSubmits
    /\ retriever # "none"
    /\ \E q \in FormQueries : q = ""
    /\ submits' = submits + 1
    /\ uiError' = "Enter a question"
    /\ UNCHANGED <<apc, alog, astatus, areq, ahits, acontext, opinion, critique,
                   critiqueInput, history>>
    /\ UNCHANGED <<loadVars, retrVars, ctxVars>>

\* else: analyze(query=..., pasted_text=..., top_k=cfg["top_k"], pack_bias=...)
SubmitAnalyze ==
    /\ apc = "form"
    /\ submits < MaxSubmits
    /\ retriever # "none"
    /\ \E q \in FormQueries \ {""}, p \in Pasted, m \in Modes :
        areq' = [mode |-> m, pasted |-> p, query |-> q]
    /\ submits' = submits + 1
    /\ apc' = "retrieve"
    /\ alog' = <<>>
    /\ astatus' = "running"
    /\ ahits' = <<>>
    /\ acontext' = <<>>
    /\ opinion' = ""
    /\ critique' = ""
    /\ critiqueInput' = NoCritiqueInput
    /\ uiError' = ""
    /\ UNCHANGED history
    /\ UNCHANGED <<loadVars, retrVars, ctxVars>>

\* a run that records a result although analyze raised
HandleException_persists(status) ==
    /\ apc' = "form"
    /\ astatus' = status
    /\ uiError' = "Error"
    /\ history' = <<[id |-> Len(history) + 1, mode |-> areq.mode, opinion |-> opinion,
                    critique |-> critique, query |-> areq.query,
                    context |-> acontext]>> \o history

\* except Exception as e: st.error(f"Error: {e}"): nothing is persisted
HandleException(status) ==
    /\ apc' = "form"
    /\ astatus' = status
    /\ uiError' = "Error"
    /\ history' = history

\* step 1a: retrieve top_k hits for the query with the mode's pack bias
AnaRetrieveOk ==
    /\ apc = "retrieve"
    /\ Len(snippets) >= 1
    /\ embeddings' = build_index(snippets)
    /\ LET sc == biased_scores(scores(build_index(snippets).rows,
                                      embed(<<<<areq.query>>>>)[1], snippets),
                               snippets, mode_pack_bias(areq.mode))
           keys == negated(sc)
       IN \E p \in argsort_outcomes(keys) :
            /\ \A m \in memo_of(keys) : m.idx = p
            /\ argsortMemo' = argsortMemo \cup {[keys |-> keys, idx |-> p]}
            /\ ahits' = hits_of(slice_top_k(p, mode_top_k(areq.mode)), sc)
    /\ alog' = Append(alog, "retrieve")
    /\ apc' = "assemble"
    /\ UNCHANGED <<astatus, areq, acontext, opinion, critique, critiqueInput, history,
                   uiError, submits>>
    /\ UNCHANGED <<pc, call, qvec, outcome, callAfterBuilt, callQueryReqs,
                   corpusRequests, buildsDone, calls, returned>>
    /\ UNCHANGED <<loadVars, ctxVars>>

\* retrieval raises (embedding service error): analyze raises
AnaRetrieveFail ==
    /\ apc = "retrieve"
    /\ alog' = Append(alog, "retrieve")
    /\ HandleException("retrieve_failed")
    /\ UNCHANGED <<areq, ahits, acontext, opinion, critique, critiqueInput, submits>>
    /\ UNCHANGED <<loadVars, retrVars, ctxVars>>

\* step 1b: wrap pasted_text as one external document; assemble the context
AnaAssemble ==
    /\ apc = "assemble"
    /\ acontext' = build_context(snippets, ahits, pasted_docs(areq.pasted), hashSeed)
    /\ alog' = Append(alog, "assemble")
    /\ apc' = "opinion"
    /\ UNCHANGED <<astatus, areq, ahits, opinion, critique, critiqueInput, history,
                   uiError, submits>>
    /\ UNCHANGED <<loadVars, retrVars, ctxVars>>

\* step 2: the opinion completion call answers
OpinionOk ==
    /\ apc = "opinion"
    /\ \E text \in Completions : opinion' = text
    /\ alog' = Append(alog, "opinion")
    /\ apc' = "critique"
    /\ UNCHANGED <<astatus, areq, ahits, acontext, critique, critiqueInput, history,
                   uiError, submits>>
    /\ UNCHANGED <<loadVars, retrVars, ctxVars>>

\* step 2: the opinion completion call fails: analyze raises
OpinionFail ==
    /\ apc = "opinion"
    /\ alog' = Append(alog, "opinion")
    /\ HandleException("opinion_failed")
    /\ UNCHANGED <<areq, ahits, acontext, opinion, critique, critiqueInput, submits>>
    /\ UNCHANGED <<loadVars, retrVars, ctxVars>>

\* step 3: the critique call is sent query + context + opinion, and answers
CritiqueOk ==
    /\ apc = "critique"
    /\ critiqueInput' = [opinion |-> opinion, query |-> areq.query,
                         context |-> acontext]
    /\ \E text \in Critiques : critique' = text
    /\ alog' = Append(alog, "critique")
    /\ apc' = "return"
    /\ UNCHANGED <<astatus, areq, ahits, acontext, opinion, history, uiError, submits>>
    /\ UNCHANGED <<loadVars, retrVars, ctxVars>>

\* step 3: the critique call is sent and fails: analyze raises
CritiqueFail ==
    /\ apc = "critique"
    /\ critiqueInput' = [opinion |-> opinion, query |-> areq.query,
                         context |-> acontext]
    /\ alog' = Append(alog, "critique")
    /\ HandleException("critique_failed")
    /\ UNCHANGED <<areq, ahits, acontext, opinion, critique, submits>>
    /\ UNCHANGED <<loadVars, retrVars, ctxVars>>

\* return (opinion, critique, context); app.py inserts the record, newest first
ReturnAndPersist ==
    /\ apc = "return"
    /\ history' = <<[id |-> Len(history) + 1, mode |-> areq.mode, opinion |-> opinion,
                    critique |-> critique, query |-> areq.query,
                    context |-> acontext]>> \o history
    /\ astatus' = "ok"
    /\ apc' = "form"
    /\ UNCHANGED <<alog, areq, ahits, acontext, opinion, critique, critiqueInput,
                   uiError, submits>>
    /\ UNCHANGED <<loadVars, retrVars, ctxVars>>

\* the hits some retrieve call on the loaded corpus can return
PossibleHits(S) ==
    UNION {LET sc == biased_scores(scores(build_index(S).rows, embed(<<<<q>>>>)[1], S),
                                   S, NoBias)
           IN {hits_of(slice_top_k(p, k), sc) : p \in argsort_outcomes(negated(sc))}
           : q \in Queries, k \in TopKs}

LoadedInit ==
    /\ file \in SeqsUpTo(CardLines, MaxCards)
    /\ lpc = "done"
    /\ lineNo = Len(file)
    /\ out = load_cards(file).out
    /\ loadError = NoError
    /\ retriever = "ready"
    /\ snippets = load_cards(file).out

\* the state app.py holds once get_retriever has returned a Retriever
Init ==
    /\ LoadedInit
    /\ RetrIdle
    /\ CtxIdle
    /\ hashSeed = 0
    /\ AnaIdle

Next ==
    \E t \in Threads :
        \/ CallEnsureIndex(t)
        \/ CallRetrieveDefault(t)
        \/ EnsureCheck(t)
        \/ BuildOk(t)
        \/ BuildFail(t)
        \/ QueryEmbedOk(t)
        \/ QueryEmbedFail(t)
        \/ ScoreAndReturn(t)

Spec == Init /\ [][Next]_vars

\* one session issuing retrieve calls over every query, top_k and bias
RankNext ==
    \/ CallRetrieve("s1")
    \/ EnsureCheck("s1")
    \/ BuildOk("s1")
    \/ BuildFail("s1")
    \/ QueryEmbedOk("s1")
    \/ QueryEmbedFail("s1")
    \/ ScoreAndReturn("s1")

RankSpec == Init /\ [][RankNext]_vars

CtxInit ==
    /\ LoadedInit
    /\ RetrIdle
    /\ AnaIdle
    /\ hashSeed \in {0, 1}
    /\ ctxHits \in (IF Len(snippets) = 0 THEN {<<>>} ELSE PossibleHits(snippets))
    /\ extra_docs \in SeqsUpTo(DocSet, MaxDocs)
    /\ cpc = "hits"
    /\ cpos = 0
    /\ blocks = <<>>

CtxNext ==
    \/ AppendHitBlock
    \/ HitsDone
    \/ AppendDocBlock
    \/ DocsDone

ContextSpec == CtxInit /\ [][CtxNext]_vars

\* app.py's state when the canon failed to load: retriever stays None
FailedLoadInit ==
    /\ file = <<NonCard("bad")>>
    /\ lpc = "failed"
    /\ lineNo = 1
    /\ out = <<>>
    /\ loadError = json_loads(NonCard("bad")).exc
    /\ retriever = "none"
    /\ snippets = <<>>

AnaInit ==
    /\ (LoadedInit /\ Len(file) <= MaxAnaCards) \/ FailedLoadInit
    /\ RetrIdle
    /\ CtxIdle
    /\ hashSeed = 0
    /\ AnaIdle

AnaNext ==
    \/ SubmitNoRetriever
    \/ SubmitBlankQuery
    \/ SubmitAnalyze
    \/ AnaRetrieveOk
    \/ AnaRetrieveFail
    \/ AnaAssemble
    \/ OpinionOk
    \/ OpinionFail
    \/ CritiqueOk
    \/ CritiqueFail
    \/ ReturnAndPersist

AnalyzeSpec == AnaInit /\ [][AnaNext]_vars


LoadInit ==
    /\ file \in SeqsUpTo(LoadLines, MaxLines)
    /\ lpc = "start"
    /\ lineNo = 0
    /\ out = <<>>
    /\ loadError = NoError
    /\ retriever = "none"
    /\ snippets = <<>>
    /\ RetrIdle
    /\ CtxIdle
    /\ hashSeed = 0
    /\ AnaIdle

LoadNext ==
    \/ OpenFile
    \/ SkipBlankLine
    \/ RaiseOnLine
    \/ AppendCard
    \/ ReturnCards
    \/ RerunAfterFailure

LoadSpec == LoadInit /\ [][LoadNext]_vars


\* ------------------------------------------------------------ the claims
HitCards(r) == {r.hits[j].card : j \in 1..Len(r.hits)}

PosOf(r, i) == CHOOSE j \in 1..Len(r.hits) : r.hits[j].card = i

ScoreOf(r, i) == r.hits[PosOf(r, i)].score

\* the score every card of the corpus has in the run that produced r
FullScores(r) ==
    biased_scores(scores(build_index(snippets).rows, embed(<<<<r.query>>>>)[1],
                         snippets),
                  snippets, r.bias)

\* C1: every returned result has exactly min(top_k, number of cards) hits, its
\* scores are in non-increasing order, and two calls with the same query,
\* top_k and bias returned the same hits in the same order.
C1_RetrieveContract ==
    /\ \A r \in returned :
        /\ Len(r.hits) = Min(r.top_k, Len(snippets))
        /\ \A j \in 1..(Len(r.hits) - 1) : r.hits[j].score >= r.hits[j + 1].score
    /\ \A r1, r2 \in returned :
        (r1.query = r2.query /\ r1.top_k = r2.top_k /\ r1.bias = r2.bias)
            => r1.hits = r2.hits

\* a corpus of two or more cards has answered one call cut off by top_k and
\* one call whose top_k exceeds the corpus size
C1_Witness ==
    /\ Len(snippets) >= 2
    /\ \E r1, r2 \in returned :
        /\ r1.top_k < Len(snippets) /\ Len(r1.hits) = r1.top_k
        /\ r2.top_k > Len(snippets) /\ Len(r2.hits) = Len(snippets)

\* C2: among cards of equal score the card earlier in the corpus comes earlier
\* in the result, and at the top_k cut-off the earlier card is the one kept
\* (stated for corpora whose card ids are pairwise distinct).
C2_TiesInCorpusOrder ==
    (\A x, y \in 1..Len(snippets) : x # y => snippets[x].id # snippets[y].id) =>
    \A r \in returned :
        /\ \A a, b \in 1..Len(r.hits) :
            (a < b /\ r.hits[a].score = r.hits[b].score)
                => r.hits[a].card < r.hits[b].card
        /\ \A a \in 1..Len(r.hits) : \A i \in 1..Len(snippets) :
            (i \notin HitCards(r) /\ FullScores(r)[i] = r.hits[a].score)
                => r.hits[a].card < i

\* the packs a bias mapping raises
RaisedPacks(bias) == {e[1] : e \in {x \in bias : x[2] > BiasOne}}

\* r0 is an unbiased run and r1 a biased run of the same query
BiasPair(r0, r1) == r0.query = r1.query /\ r0.bias = NoBias /\ r1.bias # NoBias

Building == {t \in Threads : pc[t] = "building"}

\* C4: at most one corpus embedding build is ever in flight, the card texts
\* are embedded successfully at most once, and nobody scores against an unset
\* or partially built matrix.
C4_AtMostOneBuild ==
    /\ Cardinality(Building) <= 1
    /\ buildsDone <= 1
    /\ \A t \in Threads : pc[t] = "score" => embeddings = build_index(snippets)

\* C5: the index is unset or whole, never partial; a failing build leaves it as
\* it was and ends the call with the error and no result; a call that finds the
\* index unset sends the corpus embedding request (again); a build that
\* succeeds stores the whole matrix.
C5_FailedBuildLeavesIndexUnset ==
    /\ [](embeddings = NoIndex \/ embeddings = build_index(snippets))
    /\ [][\A t \in Threads :
            (pc[t] = "building" /\ outcome'[t] = "error")
                => /\ embeddings' = embeddings
                   /\ pc'[t] = "idle"
                   /\ returned' = returned]_vars
    /\ [][\A t \in Threads :
            (pc[t] = "ensure" /\ ~embeddings.built /\ pc'[t] # "ensure")
                => /\ pc'[t] = "building"
                   /\ corpusRequests' = corpusRequests + 1]_vars
    /\ [][\A t \in Threads :
            (pc[t] = "building" /\ outcome'[t] # "error" /\ pc'[t] # "building")
                => embeddings' = build_index(snippets)]_vars

\* one build failed and reached its caller, and a later request built the index
C5_Witness ==
    /\ embeddings = build_index(snippets)
    /\ Len(snippets) >= 2
    /\ Building = {}
    /\ buildsDone = 1
    /\ corpusRequests = 2
    /\ \E t \in Threads : outcome[t] = "error"

\* C10: a built matrix has one row per card, row i being the embedding of card
\* i's text; once built, no step changes the matrix or the card list; a call
\* begun after the build sends no corpus embedding request; and a retrieve call
\* sends exactly one query embedding request, an ensure_index call none.
C10_IndexStableOnceBuilt ==
    /\ [](embeddings.built =>
            /\ Len(embeddings.rows) = Len(snippets)
            /\ \A i \in 1..Len(snippets) :
                 embeddings.rows[i] = embed(<<snippets[i].text>>)[1])
    /\ [][embeddings.built => (embeddings' = embeddings /\ snippets' = snippets)]_vars
    /\ [][\A t \in Threads :
            (pc[t] # "idle" /\ callAfterBuilt[t] /\ pc'[t] # pc[t])
                => corpusRequests' = corpusRequests]_vars
    /\ [](\A t \in Threads :
            /\ callQueryReqs[t] <= 1
            /\ (outcome[t] = "ok" /\ call[t].op = "retrieve") => callQueryReqs[t] = 1
            /\ call[t].op = "ensure_index" => callQueryReqs[t] = 0)

\* after the build, a later ensure_index call and a later retrieve call have
\* both completed, with a single corpus embedding request ever sent
C10_Witness ==
    /\ embeddings.built
    /\ Len(snippets) >= 2
    /\ corpusRequests = 1
    /\ \E t, u \in Threads :
        /\ callAfterBuilt[t] /\ outcome[t] = "ok" /\ call[t].op = "retrieve"
        /\ callAfterBuilt[u] /\ outcome[u] = "ok" /\ call[u].op = "ensure_index"


\* the non-blank lines of a file, in file order
NonBlankLines(f) == SelectSeq(f, LAMBDA l : ~StripIsEmpty(l))

\* C6: a successfully loaded file yields one Snippet per non-blank line, in
\* source order, with non-empty and pairwise distinct ids.
C6_LoadedIdsDistinct ==
    lpc = "done" =>
        /\ Len(snippets) = NonBlankCount(file)
        /\ \A k \in 1..Len(snippets) : snippets[k] = Snippet(NonBlankLines(file)[k])
        /\ \A k \in 1..Len(snippets) : snippets[k].id # ""
        /\ \A k, m \in 1..Len(snippets) : k # m => snippets[k].id # snippets[m].id

\* C7: a malformed JSON line n makes the load fail with a CorpusFormatError
\* naming line n, and no Retriever becomes available.
C7_ErrorNamesLine ==
    (lpc = "failed" /\ file[lineNo].raw = "bad") =>
        /\ loadError.type = "CorpusFormatError"
        /\ loadError.lineno = lineNo
        /\ retriever = "none"
        /\ snippets = <<>>


\* the loaded corpus has pairwise distinct card ids
CorpusIdsDistinct ==
    \A k, m \in 1..Len(snippets) : k # m => snippets[k].id # snippets[m].id

\* the ids the caller supplied for external documents are pairwise distinct
GivenDocIdsDistinct ==
    \A a, b \in 1..Len(extra_docs) :
        (a # b /\ extra_docs[a].hasId /\ extra_docs[b].hasId)
            => extra_docs[a].id # extra_docs[b].id

\* C8: build_context emits one block per hit, then one block per external
\* document, and the source_id values of all blocks are pairwise distinct.
C8_SourceIdsDistinct ==
    (cpc = "done" /\ CorpusIdsDistinct /\ GivenDocIdsDistinct) =>
        /\ Len(blocks) = Len(ctxHits) + Len(extra_docs)
        /\ \A j \in 1..Len(ctxHits) : blocks[j] = hit_block(snippets, ctxHits[j])
        /\ \A j \in 1..Len(extra_docs) : blocks[Len(ctxHits) + j].from = "doc"
        /\ \A a, b \in 1..Len(blocks) :
            a # b => blocks[a].source_id # blocks[b].source_id

FailedStatuses == {"retrieve_failed", "opinion_failed", "critique_failed"}

=============================================================================
